---- MODULE Spec2Model ----
EXTENDS Integers, Sequences, FiniteSets, TLC

(***************************************************************************)
(* Numbers.  The source computes in IEEE doubles on coordinates that are   *)
(* integers.  A number is modelled exactly, as five signed limbs in base   *)
(* Base: <<c0,c1,c2,c3,c4>> stands for c0 + c1*Base + ... + c4*Base^4.     *)
(* Sums and products are limb-wise and are not carried; Sign carries.      *)
(* The rounding of a double beyond 2^53 is not modelled.  The products     *)
(* formed here stay below Base^5 and their limbs below LimbMax.            *)
(***************************************************************************)
Base == 10 ^ 4

LimbMax == 10 ^ 5

Zero == <<0, 0, 0, 0, 0>>

One == <<1, 0, 0, 0, 0>>

Quot(n) == IF n >= 0 THEN n \div Base ELSE -((-n) \div Base)

Rem(n) == IF n >= 0 THEN n % Base ELSE -((-n) % Base)

FromInt(n) == <<Rem(n), Rem(Quot(n)), Quot(Quot(n)), 0, 0>>

Add(a, b) == <<a[1] + b[1], a[2] + b[2], a[3] + b[3], a[4] + b[4], a[5] + b[5]>>

Neg(a) == <<-a[1], -a[2], -a[3], -a[4], -a[5]>>

Mul(a, b) ==
    <<a[1] * b[1],
      a[1] * b[2] + a[2] * b[1],
      a[1] * b[3] + a[2] * b[2] + a[3] * b[1],
      a[1] * b[4] + a[2] * b[3] + a[3] * b[2] + a[4] * b[1],
      a[1] * b[5] + a[2] * b[4] + a[3] * b[3] + a[4] * b[2] + a[5] * b[1]>>

Clamp(n) == IF n > LimbMax THEN LimbMax ELSE IF n < -LimbMax THEN -LimbMax ELSE n

\* Sign of a number: Horner's rule from the top limb, saturating.
Sign(a) ==
    LET h4 == Clamp(a[5])
        h3 == Clamp(h4 * Base + a[4])
        h2 == Clamp(h3 * Base + a[3])
        h1 == Clamp(h2 * Base + a[2])
        h0 == Clamp(h1 * Base + a[1])
    IN  IF h0 < 0 THEN -1 ELSE IF h0 > 0 THEN 1 ELSE 0

Abs(a) == IF Sign(a) < 0 THEN Neg(a) ELSE a

(***************************************************************************)
(* determinant(matrix, row, columns) expands along the rows over the       *)
(* active columns, the sign alternating over the active columns in         *)
(* ascending order.  det2, det3 and det4 are that recursion written out    *)
(* for the 2, 3 and 4 remaining rows; a matrix is a sequence of rows.      *)
(***************************************************************************)
det2(m, r, c1, c2) ==
    Add(Mul(m[r][c1], m[r + 1][c2]), Neg(Mul(m[r][c2], m[r + 1][c1])))

det3(m, r, c1, c2, c3) ==
    Add(Mul(m[r][c1], det2(m, r + 1, c2, c3)),
        Add(Neg(Mul(m[r][c2], det2(m, r + 1, c1, c3))),
            Mul(m[r][c3], det2(m, r + 1, c1, c2))))

det4(m) ==
    Add(Mul(m[1][1], det3(m, 2, 2, 3, 4)),
        Add(Neg(Mul(m[1][2], det3(m, 2, 1, 3, 4))),
            Add(Mul(m[1][3], det3(m, 2, 1, 2, 4)),
                Neg(Mul(m[1][4], det3(m, 2, 1, 2, 3))))))

determinant(matrix) ==
    IF Len(matrix) = 3 THEN det3(matrix, 1, 1, 2, 3) ELSE det4(matrix)

cross(matrix) ==
    << det3(matrix, 1, 2, 3, 4), Neg(det3(matrix, 1, 1, 3, 4)),
       det3(matrix, 1, 1, 2, 4), Neg(det3(matrix, 1, 1, 2, 3)) >>

NoVertex == <<>>

\* A DelaunayVertex is its coordinate pair <<x, y>> of integers; coord(p, i) is
\* the coordinate as a number.
coord(p, i) == FromInt(p[i])

dot(p, q) == Add(Mul(coord(p, 1), coord(q, 1)), Mul(coord(p, 2), coord(q, 2)))

RelSign(value, content) ==
    IF Sign(Add(Mul(FromInt(1000000), Abs(value)), Neg(Abs(content)))) <= 0 THEN 0
    ELSE IF Sign(value) < 0 THEN -1 ELSE 1

\* The signs of relation for the vector of contents: the flip for a negative
\* content and the absolute values for a zero content.
orient(s, raw) ==
    IF s < 0 THEN [i \in 1..3 |-> -raw[i]]
    ELSE IF s = 0 THEN [i \in 1..3 |-> IF raw[i] < 0 THEN -raw[i] ELSE raw[i]]
    ELSE raw

signsOf(vector) ==
    orient(Sign(vector[1]), [i \in 1..3 |-> RelSign(vector[i + 1], vector[1])])

relation(p, simplex) ==
    signsOf(cross(<< <<One, One, One, One>>,
                     <<coord(p, 1), coord(simplex[1], 1), coord(simplex[2], 1),
                       coord(simplex[3], 1)>>,
                     <<coord(p, 2), coord(simplex[1], 2), coord(simplex[2], 2),
                       coord(simplex[3], 2)>> >>))

\* The source divides the determinant by fact = 2; callers read the sign only.
content(simplex) ==
    determinant([i \in 1..3 |-> <<coord(simplex[i], 1), coord(simplex[i], 2), One>>])

\* The rows of vsCircumcircle's matrix: each vertex, then the point, extended
\* by 1 and by its squared magnitude.
lifted(p, simplex) ==
    [i \in 1..4 |->
        IF i <= 3
        THEN <<coord(simplex[i], 1), coord(simplex[i], 2), One, dot(simplex[i], simplex[i])>>
        ELSE <<coord(p, 1), coord(p, 2), One, dot(p, p)>>]

flipIf(negative, result) == IF negative THEN -result ELSE result

\* Faulty variant of vsCircumcircle: the sign is not flipped for a simplex of
\* negative content.
vsCircumcircleNoFlip(p, simplex) == Sign(determinant(lifted(p, simplex)))

\* Faulty variant of vsCircumcircle: the sign is flipped for a simplex of
\* positive content instead.
vsCircumcircleFlipPositive(p, simplex) ==
    flipIf(Sign(content(simplex)) > 0, Sign(determinant(lifted(p, simplex))))

vsCircumcircle(p, simplex) ==
    flipIf(Sign(content(simplex)) < 0, Sign(determinant(lifted(p, simplex))))

\* The first vertex whose sign is positive, or zero too if orOn.
witnessOf(result, simplex, orOn) ==
    IF result[1] > 0 \/ (orOn /\ result[1] = 0) THEN simplex[1]
    ELSE IF result[2] > 0 \/ (orOn /\ result[2] = 0) THEN simplex[2]
    ELSE IF result[3] > 0 \/ (orOn /\ result[3] = 0) THEN simplex[3]
    ELSE NoVertex

\* Faulty variant of isOutside: a zero sign counts as outside too.
isOutsideOrOn(p, simplex) == witnessOf(relation(p, simplex), simplex, TRUE)

isOutside(p, simplex) == witnessOf(relation(p, simplex), simplex, FALSE)

\* The loop of isOn from index i: a zero sign replaces the witness, a positive
\* sign returns null at once.
RECURSIVE isOnLoop(_, _, _, _)
isOnLoop(result, simplex, i, witness) ==
    IF i > Len(result) THEN witness
    ELSE IF result[i] = 0 THEN isOnLoop(result, simplex, i + 1, simplex[i])
    ELSE IF result[i] > 0 THEN NoVertex
    ELSE isOnLoop(result, simplex, i + 1, witness)

\* Faulty variant of isOn: the first zero sign ends the loop.
isOnFirstZero(p, simplex) ==
    LET result == relation(p, simplex)
    IN  IF result[1] = 0 THEN simplex[1]
        ELSE IF result[2] = 0 THEN simplex[2]
        ELSE IF result[3] = 0 THEN simplex[3]
        ELSE NoVertex

isOn(p, simplex) == isOnLoop(relation(p, simplex), simplex, 1, NoVertex)

(***************************************************************************)
(* DelaunayTriangle.  A triangle object is a record: ref is the object's   *)
(* identity (equals is this == o), idNumber the id field, v its vertices   *)
(* in insertion order.                                                     *)
(***************************************************************************)
Null == [ref |-> 0, idNumber |-> 0, v |-> <<>>]

Range(s) == {s[i] : i \in 1..Len(s)}

\* constructor: this.idGenerator = 0; idNumber = idGenerator++.  size is the
\* number of distinct vertices; the constructor throws unless it is 3.
DelaunayTriangle(ref, vertices) ==
    LET idGenerator == 0
    IN  [ref |-> ref, idNumber |-> idGenerator, v |-> vertices]

equals(t, o) == t.ref = o.ref

hashCode(t) == t.idNumber

triContains(t, vertex) == vertex \in Range(t.v)

facetOpposite(t, vertex) == SelectSeq(t.v, LAMBDA w : w # vertex)

\* The first element of a sequence, or none.
firstOr(s, none) == IF s = <<>> THEN none ELSE s[1]

getVertexButNot(t, bad) ==
    firstOr(SelectSeq(t.v, LAMBDA w : w \notin bad), NoVertex)

isNeighbor(t, other) ==
    Cardinality({i \in 1..Len(t.v) : ~triContains(other, t.v[i])}) = 1

(***************************************************************************)
(* UndirectedGraph: nodes in insertion order, links in the order they were *)
(* connected; getConnectedNodesFor lists a node's neighbours in that order.*)
(***************************************************************************)
graphAdd(g, t) ==
    IF \E i \in 1..Len(g.nodes) : equals(g.nodes[i], t) THEN g
    ELSE [g EXCEPT !.nodes = Append(@, t)]

graphRemove(g, t) ==
    [nodes |-> SelectSeq(g.nodes, LAMBDA n : ~equals(n, t)),
     links |-> SelectSeq(g.links, LAMBDA e : ~equals(e[1], t) /\ ~equals(e[2], t))]

graphConnect(g, a, b) ==
    IF \E i \in 1..Len(g.links) :
          \/ equals(g.links[i][1], a) /\ equals(g.links[i][2], b)
          \/ equals(g.links[i][1], b) /\ equals(g.links[i][2], a)
    THEN g
    ELSE [g EXCEPT !.links = Append(@, <<a, b>>)]

getConnectedNodesFor(g, t) ==
    LET mine == SelectSeq(g.links, LAMBDA e : equals(e[1], t) \/ equals(e[2], t))
    IN  [i \in 1..Len(mine) |-> IF equals(mine[i][1], t) THEN mine[i][2] ELSE mine[i][1]]

getNodes(g) == g.nodes

(***************************************************************************)
(* DelaunayTriangulation.  A triangulation is a record [triGraph,          *)
(* mostRecent, allocated]; allocated counts the triangle objects made so   *)
(* far and names the next object.                                          *)
(***************************************************************************)
contains(dt, triangle) ==
    \E i \in 1..Len(getNodes(dt.triGraph)) : equals(getNodes(dt.triGraph)[i], triangle)

neighbors(dt, triangle) == getConnectedNodesFor(dt.triGraph, triangle)

size(dt) == Len(getNodes(dt.triGraph))

\* The first neighbour that does not hold site; Null if none.  The caller
\* must pass a vertex of triangle (the source throws otherwise).
\* What a call that throws yields in place of a triangle.
Thrown == [ref |-> -1, idNumber |-> 0, v |-> <<>>]

\* Faulty variant of neighborOpposite: the first neighbour, whatever its vertices.
neighborOppositeAny(dt, site, triangle) ==
    IF ~triContains(triangle, site) THEN Thrown
    ELSE firstOr(neighbors(dt, triangle), Null)

neighborOpposite(dt, site, triangle) ==
    IF ~triContains(triangle, site) THEN Thrown
    ELSE firstOr(SelectSeq(neighbors(dt, triangle), LAMBDA n : ~triContains(n, site)), Null)

\* The directed walk of locate: [found, triangle].  walkOn is the rest of
\* one round of the loop, once the corner opposite point is known.
RECURSIVE walk(_, _, _, _)
RECURSIVE walkOn(_, _, _, _, _)
walk(dt, point, triangle, visited) ==
    IF triangle = Null \/ triangle \in visited
    THEN [found |-> FALSE, triangle |-> Null]
    ELSE walkOn(dt, point, triangle, visited, isOutside(point, triangle.v))

\* Faulty variant of walkOn: a missing neighbour ends the walk at the triangle
\* it has reached.
walkOnStay(dt, point, triangle, visited, corner) ==
    IF corner = NoVertex \/ neighborOpposite(dt, corner, triangle) = Null
    THEN [found |-> TRUE, triangle |-> triangle]
    ELSE walk(dt, point, neighborOpposite(dt, corner, triangle), visited \cup {triangle})

walkOn(dt, point, triangle, visited, corner) ==
    IF corner = NoVertex
    THEN [found |-> TRUE, triangle |-> triangle]
    ELSE walk(dt, point, neighborOpposite(dt, corner, triangle), visited \cup {triangle})

\* The end of locate: the walk's triangle, else the first live triangle that
\* holds point, else null.
located(dt, point, walked) ==
    IF walked.found THEN walked.triangle
    ELSE firstOr(SelectSeq(getNodes(dt.triGraph),
                           LAMBDA tri : isOutside(point, tri.v) = NoVertex),
                 Null)

locate(dt, point) ==
    located(dt, point,
            walk(dt, point, IF contains(dt, dt.mostRecent) THEN dt.mostRecent ELSE Null, {}))

\* Faulty variant of the loop of getCavity: a triangle with the site outside
\* its circumcircle is left out of the cavity but its neighbours are checked.
RECURSIVE cavityLoopThrough(_, _, _, _, _)
cavityLoopThrough(dt, site, toBeChecked, marked, encroached) ==
    IF toBeChecked = <<>> THEN encroached
    ELSE LET triangle == Head(toBeChecked)
             fresh == SelectSeq(neighbors(dt, triangle), LAMBDA n : n \notin marked)
         IN  cavityLoopThrough(dt, site, Tail(toBeChecked) \o fresh,
                               marked \cup Range(fresh),
                               IF vsCircumcircle(site, triangle.v) = 1 THEN encroached
                               ELSE Append(encroached, triangle))

RECURSIVE cavityLoop(_, _, _, _, _)
cavityLoop(dt, site, toBeChecked, marked, encroached) ==
    IF toBeChecked = <<>> THEN encroached
    ELSE LET triangle == Head(toBeChecked)
         IN  IF vsCircumcircle(site, triangle.v) = 1
             THEN cavityLoop(dt, site, Tail(toBeChecked), marked, encroached)
             ELSE LET fresh == SelectSeq(neighbors(dt, triangle),
                                         LAMBDA n : n \notin marked)
                  IN  cavityLoop(dt, site, Tail(toBeChecked) \o fresh,
                                 marked \cup Range(fresh),
                                 Append(encroached, triangle))

\* Faulty variant of getCavity: the neighbours are never checked.
getCavityStartOnly(dt, site, triangle) == <<triangle>>

\* Faulty variant of getCavity: no triangle is left out of the cavity.
getCavityAll(dt, site, triangle) == getNodes(dt.triGraph)

getCavity(dt, site, triangle) ==
    cavityLoop(dt, site, <<triangle>>, {triangle}, <<>>)

\* boundary.contains(facet) ? boundary.remove(facet) : boundary.add(facet);
\* facets are sets of two vertices and compare as sets.
toggle(boundary, facet) ==
    IF \E i \in 1..Len(boundary) : Range(boundary[i]) = Range(facet)
    THEN SelectSeq(boundary, LAMBDA f : Range(f) # Range(facet))
    ELSE Append(boundary, facet)

RECURSIVE toggleAll(_, _)
toggleAll(boundary, facets) ==
    IF facets = <<>> THEN boundary
    ELSE toggleAll(toggle(boundary, Head(facets)), Tail(facets))

RECURSIVE findBoundary(_, _)
findBoundary(cavity, boundary) ==
    IF cavity = <<>> THEN boundary
    ELSE LET triangle == Head(cavity)
             facets == [i \in 1..Len(triangle.v) |-> facetOpposite(triangle, triangle.v[i])]
         IN  findBoundary(Tail(cavity), toggleAll(boundary, facets))

RECURSIVE addAll(_, _)
addAll(set, items) ==
    IF items = <<>> THEN set
    ELSE addAll(IF Head(items) \in Range(set) THEN set ELSE Append(set, Head(items)),
                Tail(items))

\* Faulty variant of removeAll: nothing is removed.
removeAllNothing(set, items) == set

removeAll(set, items) == SelectSeq(set, LAMBDA e : e \notin Range(items))

RECURSIVE findAdjacent(_, _, _)
findAdjacent(dt, cavity, theTriangles) ==
    IF cavity = <<>> THEN theTriangles
    ELSE findAdjacent(dt, Tail(cavity), addAll(theTriangles, neighbors(dt, Head(cavity))))

\* Faulty variant of removeCavity: only the first cavity triangle is removed.
removeCavityFirstOnly(g, cavity) ==
    IF cavity = <<>> THEN g ELSE graphRemove(g, Head(cavity))

RECURSIVE removeCavity(_, _)
removeCavity(g, cavity) ==
    IF cavity = <<>> THEN g
    ELSE removeCavity(graphRemove(g, Head(cavity)), Tail(cavity))

\* Build each new triangle: st is [triGraph, allocated, newTriangles, threw].
\* vertices.add(site) leaves a facet that already holds site at two vertices,
\* and the constructor then throws, after it took its id.
\* Faulty variant of the loop that builds the new triangles: the last facet of
\* the boundary gets no triangle.
RECURSIVE buildTrianglesButLast(_, _, _)
buildTrianglesButLast(st, boundary, site) ==
    IF Len(boundary) <= 1 THEN st
    ELSE LET facet == Head(boundary)
             vertices == IF site \in Range(facet) THEN facet ELSE Append(facet, site)
             tri == DelaunayTriangle(st.allocated + 1, vertices)
         IN  IF Len(vertices) # 3
             THEN [st EXCEPT !.allocated = @ + 1, !.threw = TRUE]
             ELSE buildTrianglesButLast([triGraph |-> graphAdd(st.triGraph, tri),
                                  allocated |-> st.allocated + 1,
                                  newTriangles |-> Append(st.newTriangles, tri),
                                  threw |-> FALSE],
                                 Tail(boundary), site)

RECURSIVE buildTriangles(_, _, _)
buildTriangles(st, boundary, site) ==
    IF boundary = <<>> THEN st
    ELSE LET facet == Head(boundary)
             vertices == IF site \in Range(facet) THEN facet ELSE Append(facet, site)
             tri == DelaunayTriangle(st.allocated + 1, vertices)
         IN  IF Len(vertices) # 3
             THEN [st EXCEPT !.allocated = @ + 1, !.threw = TRUE]
             ELSE buildTriangles([triGraph |-> graphAdd(st.triGraph, tri),
                                  allocated |-> st.allocated + 1,
                                  newTriangles |-> Append(st.newTriangles, tri),
                                  threw |-> FALSE],
                                 Tail(boundary), site)

RECURSIVE linkOne(_, _, _)
linkOne(g, triangle, others) ==
    IF others = <<>> THEN g
    ELSE linkOne(IF isNeighbor(triangle, Head(others))
                 THEN graphConnect(g, triangle, Head(others)) ELSE g,
                 triangle, Tail(others))

RECURSIVE linkAll(_, _, _)
linkAll(g, newTriangles, theTriangles) ==
    IF newTriangles = <<>> THEN g
    ELSE linkAll(linkOne(g, Head(newTriangles), theTriangles),
                 Tail(newTriangles), theTriangles)

\* The end of update, once the new triangles are built: the links, and the
\* first new triangle as the result.
relinked(built, adjacent) ==
    IF built.threw
    THEN [triGraph |-> built.triGraph, allocated |-> built.allocated,
          result |-> Null, threw |-> TRUE]
    ELSE [triGraph |-> linkAll(built.triGraph, built.newTriangles,
                               addAll(adjacent, built.newTriangles)),
          allocated |-> built.allocated,
          result |-> firstOr(built.newTriangles, Null),
          threw |-> built.newTriangles = <<>>]

\* update(site, cavity): [triGraph, allocated, result, threw].  threw is set
\* when a constructor throws or when newTriangles.iterator().next() finds no
\* new triangle; the graph is then as far as the code got.
update(dt, site, cavity) ==
    relinked(buildTriangles([triGraph |-> removeCavity(dt.triGraph, cavity),
                             allocated |-> dt.allocated,
                             newTriangles |-> <<>>, threw |-> FALSE],
                            findBoundary(cavity, <<>>), site),
             removeAll(findAdjacent(dt, cavity, <<>>), cavity))

\* The end of delaunayPlace, once update has run: this.mostRecent is assigned
\* unless update threw.
updated(dt, u) ==
    IF u.threw
    THEN [dt |-> [triGraph |-> u.triGraph, mostRecent |-> dt.mostRecent,
                  allocated |-> u.allocated],
          outcome |-> "error"]
    ELSE [dt |-> [triGraph |-> u.triGraph, mostRecent |-> u.result,
                  allocated |-> u.allocated],
          outcome |-> "placed"]

\* delaunayPlace once the site is located; cached is the triangulation the
\* call leaves when it changes no triangle.
placeIn(dt, cached, site, triangle, duplicateTest) ==
    IF triangle = Null THEN [dt |-> cached, outcome |-> "error"]
    ELSE IF duplicateTest /\ triContains(triangle, site)
    THEN [dt |-> cached, outcome |-> "noop"]
    ELSE updated(dt, update(dt, site, getCavity(dt, site, triangle)))

\* Faulty variant of delaunayPlace: no test for a site that is already a vertex.
delaunayPlaceNoDuplicateTest(dt, site) ==
    placeIn(dt, dt, site, locate(dt, site), FALSE)

\* Faulty variant of delaunayPlace: the located triangle is cached before the
\* test for null.
delaunayPlaceCacheFirst(dt, site) ==
    placeIn(dt, [dt EXCEPT !.mostRecent = locate(dt, site)], site, locate(dt, site), TRUE)

\* delaunayPlace(site): the triangulation after the call and how it ended:
\* "placed", "noop" (site already a vertex) or "error" (an exception).
delaunayPlace(dt, site) == placeIn(dt, dt, site, locate(dt, site), TRUE)

\* surroundingTriangles(site, triangle): [ok, list].  ok is FALSE when the
\* walk steps onto null (the source then fails on null) or does not come
\* back to its start within the live triangles.
RECURSIVE surroundLoop(_, _, _, _, _, _)
surroundLoop(dt, site, start, triangle, guide, list) ==
    LET next == neighborOpposite(dt, guide, triangle)
        nextGuide == getVertexButNot(triangle, {site, guide})
        grown == Append(list, triangle)
    IN  IF next = start THEN [ok |-> TRUE, list |-> grown]
        ELSE IF next = Null \/ next = Thrown \/ Len(grown) > size(dt)
        THEN [ok |-> FALSE, list |-> grown]
        ELSE surroundLoop(dt, site, start, next, nextGuide, grown)

\* Faulty variant of surroundingTriangles: the guide is not updated in the loop.
RECURSIVE surroundLoopStaleGuide(_, _, _, _, _, _)
surroundLoopStaleGuide(dt, site, start, triangle, guide, list) ==
    LET next == neighborOpposite(dt, guide, triangle)
        nextGuide == getVertexButNot(triangle, {site, guide})
        grown == Append(list, triangle)
    IN  IF next = start THEN [ok |-> TRUE, list |-> grown]
        ELSE IF next = Null \/ next = Thrown \/ Len(grown) > size(dt)
        THEN [ok |-> FALSE, list |-> grown]
        ELSE surroundLoopStaleGuide(dt, site, start, next, guide, grown)

surroundingTrianglesStaleGuide(dt, site, triangle) ==
    IF ~triContains(triangle, site) THEN [ok |-> FALSE, list |-> <<>>]
    ELSE surroundLoopStaleGuide(dt, site, triangle, triangle,
                                getVertexButNot(triangle, {site}), <<>>)

surroundingTriangles(dt, site, triangle) ==
    IF ~triContains(triangle, site) THEN [ok |-> FALSE, list |-> <<>>]
    ELSE surroundLoop(dt, site, triangle, triangle, getVertexButNot(triangle, {site}), <<>>)

(***************************************************************************)
(* Voronoi.                                                                *)
(***************************************************************************)
DEFAULT_SIZE == 10000

initialTriangle ==
    DelaunayTriangle(1, << <<-DEFAULT_SIZE, -DEFAULT_SIZE>>,
                           <<DEFAULT_SIZE, -DEFAULT_SIZE>>,
                           <<0, DEFAULT_SIZE>> >>)

\* new DelaunayTriangulation(initialTriangle)
newTriangulation ==
    [triGraph |-> graphAdd([nodes |-> <<>>, links |-> <<>>], initialTriangle),
     mostRecent |-> initialTriangle,
     allocated |-> 1]

\* getRegions(): one entry per region, the region given by the triangles whose
\* circumcenters are its corners; [ok, regions], ok FALSE if a
\* surroundingTriangles call fails.
RECURSIVE regionsLoop(_, _, _, _)
regionsLoop(dt, pairs, done, regions) ==
    IF pairs = <<>> THEN [ok |-> TRUE, regions |-> regions]
    ELSE LET triangle == Head(pairs)[1]
             site == Head(pairs)[2]
         IN  IF site \in done THEN regionsLoop(dt, Tail(pairs), done, regions)
             ELSE LET around == surroundingTriangles(dt, site, triangle)
                  IN  IF ~around.ok THEN [ok |-> FALSE, regions |-> regions]
                      ELSE regionsLoop(dt, Tail(pairs), done \cup {site},
                                       Append(regions, around.list))

RECURSIVE flatten(_)
flatten(nodes) ==
    IF nodes = <<>> THEN <<>>
    ELSE [i \in 1..Len(Head(nodes).v) |-> <<Head(nodes), Head(nodes).v[i]>>]
         \o flatten(Tail(nodes))

\* Faulty variant of getRegions: done starts empty, the corners not in it.
getRegionsCornersToo(dt) ==
    regionsLoop(dt, flatten(getNodes(dt.triGraph)), {}, <<>>)

getRegions(dt) ==
    regionsLoop(dt, flatten(getNodes(dt.triGraph)), Range(initialTriangle.v), <<>>)

(***************************************************************************)
(* The state machine: a Voronoi object and the calls made on it.           *)
(***************************************************************************)
VARIABLES triGraph, mostRecent, allocated, sites, outcome, inserted, call

vars == <<triGraph, mostRecent, allocated, sites, outcome, inserted, call>>

delaunay == [triGraph |-> triGraph, mostRecent |-> mostRecent, allocated |-> allocated]

MaxCalls == 3

\* The points offered to addPoint: the unit square (four points on a circle),
\* a fifth point, and one point outside the initial triangle.
Inside == {<<0, 0>>, <<1, 0>>, <<0, 1>>, <<1, 1>>, <<2, -1>>}

Outside == {<<0, 2 * DEFAULT_SIZE>>}

\* No call of a geometric predicate made: call holds the receiver, the
\* argument and the value returned of such a call.
NoCall == [op |-> "none", p |-> NoVertex, simplex |-> <<>>, sign |-> 0, vertex |-> NoVertex]

Init ==
    /\ triGraph = newTriangulation.triGraph
    /\ mostRecent = newTriangulation.mostRecent
    /\ allocated = newTriangulation.allocated
    /\ sites = <<>>
    /\ outcome = "none"
    /\ inserted = {}
    /\ call = NoCall

\* The state after delaunayPlace ended as r says.
placed(r, p) ==
    /\ triGraph' = r.dt.triGraph
    /\ mostRecent' = r.dt.mostRecent
    /\ allocated' = r.dt.allocated
    /\ outcome' = r.outcome
    /\ inserted' = IF r.outcome = "error" THEN inserted ELSE inserted \cup {p}

\* addPoint(p): sites.push(p.copy()); delaunay.delaunayPlace(vertex of p)
addPoint(p) ==
    /\ Len(sites) < MaxCalls
    /\ sites' = Append(sites, p)
    /\ placed(delaunayPlace(delaunay, p), p)
    /\ UNCHANGED call

Next == \E p \in Inside \cup Outside : addPoint(p)

Spec == Init /\ [][Next]_vars

(***************************************************************************)
(* The predicates of DelaunayVertex called on their own, for every point   *)
(* and every simplex of a small grid.                                      *)
(***************************************************************************)
MaxCoord == 2

Grid == (0..MaxCoord) \X (0..MaxCoord)

VertexInit ==
    /\ triGraph = newTriangulation.triGraph
    /\ mostRecent = newTriangulation.mostRecent
    /\ allocated = newTriangulation.allocated
    /\ sites = <<>>
    /\ outcome = "none"
    /\ inserted = {}
    /\ call \in [op : {"none"}, p : Grid, simplex : Grid \X Grid \X Grid,
                 sign : {0}, vertex : {NoVertex}]

vsCircumcircleCall ==
    /\ call.op = "none"
    /\ call' = [call EXCEPT !.op = "vsCircumcircle",
                            !.sign = vsCircumcircle(call.p, call.simplex)]
    /\ UNCHANGED <<triGraph, mostRecent, allocated, sites, outcome, inserted>>

isOnCall ==
    /\ call.op = "none"
    /\ call' = [call EXCEPT !.op = "isOn", !.vertex = isOn(call.p, call.simplex)]
    /\ UNCHANGED <<triGraph, mostRecent, allocated, sites, outcome, inserted>>

VertexNext == vsCircumcircleCall \/ isOnCall

VertexSpec == VertexInit /\ [][VertexNext]_vars

(***************************************************************************)
(* Vocabulary of the properties.                                           *)
(***************************************************************************)
Live == Range(getNodes(triGraph))

Corners == Range(initialTriangle.v)

Linked(g, a, b) ==
    \E i \in 1..Len(g.links) :
        \/ g.links[i] = <<a, b>>
        \/ g.links[i] = <<b, a>>

\* The live triangles as vertex sets, identities dropped.
TriSets(dt) == {Range(t.v) : t \in Range(getNodes(dt.triGraph))}

Less(p, q) == p[1] < q[1] \/ (p[1] = q[1] /\ p[2] < q[2])

RECURSIVE SortedSeq(_)
SortedSeq(S) ==
    IF S = {} THEN <<>>
    ELSE LET m == CHOOSE p \in S : \A q \in S : p = q \/ Less(p, q)
         IN  <<m>> \o SortedSeq(S \ {m})

\* addPoints(points) on a triangulation: delaunayPlace for each in turn.
RECURSIVE addPoints(_, _)
addPoints(dt, points) ==
    IF points = <<>> THEN dt
    ELSE addPoints(delaunayPlace(dt, Head(points)).dt, Tail(points))

\* Four of the points lie on one circle.
Cocircular(S) ==
    LET s == SortedSeq(S)
    IN  \E i, j, k, l \in 1..Len(s) :
            /\ i < j /\ j < k /\ k < l
            /\ Sign(content(<<s[i], s[j], s[k]>>)) # 0
            /\ vsCircumcircle(s[l], <<s[i], s[j], s[k]>>) = 0

GeneralPosition == ~Cocircular(inserted \cup Corners)

Scenario1 == << <<0, 0>>, <<1, 0>>, <<0, 1>> >>

\* C1: after every insertion, no inserted site lies strictly inside the
\* circumcircle of a live triangle it is not a vertex of.
C1_EmptyCircumcircle ==
    \A t \in Live : \A s \in inserted :
        ~triContains(t, s) => vsCircumcircle(s, t.v) # -1

C1_Witness ==
    /\ outcome = "placed"
    /\ Cardinality(inserted) = 3
    /\ \E t \in Live : \E s \in inserted :
          ~triContains(t, s) /\ vsCircumcircle(s, t.v) = 1

\* C2: a call that inserts a site inserted at any earlier call changes
\* neither the live triangles nor the links of the graph.
C2_DuplicateIsNoOp ==
    [][(Len(sites') = Len(sites) + 1 /\ sites'[Len(sites')] \in inserted)
         => (triGraph' = triGraph /\ outcome' = "noop")]_vars

C2_Witness ==
    /\ Len(sites) = 3
    /\ sites[3] = sites[1]
    /\ sites[2] # sites[1]
    /\ sites[2] \in inserted
    /\ outcome = "noop"

\* C3: a call that raises an error leaves the graph and the most-recent
\* cache as they were, and a site in no live triangle raises the error.
C3_NoPartialFailure ==
    [][Len(sites') = Len(sites) + 1 =>
         /\ outcome' \in {"placed", "noop", "error"}
         /\ (outcome' = "error" => triGraph' = triGraph /\ mostRecent' = mostRecent)
         /\ (sites'[Len(sites')] \in Outside => outcome' = "error")]_vars

C3_Witness ==
    /\ outcome = "error"
    /\ Len(sites) = 3
    /\ size(delaunay) = 5

\* C4: for every point strictly inside the bounding triangle, locate returns
\* a live triangle that the point is not outside of.
C4_LocateContains ==
    \A q \in Inside :
        LET t == locate(delaunay, q)
        IN  /\ t # Null
            /\ t \in Live
            /\ isOutside(q, t.v) = NoVertex

C4_Witness ==
    /\ size(delaunay) = 7
    /\ \E q \in Inside :
          /\ isOutside(q, mostRecent.v) # NoVertex
          /\ locate(delaunay, q) \in Live

\* C5: when the inserted sites and the corners are in general position, the
\* live triangles (as vertex sets) are those that inserting the same sites
\* in ascending order yields, whatever order they were inserted in.
C5_OrderIndependent ==
    GeneralPosition =>
        TriSets(delaunay) = TriSets(addPoints(newTriangulation, SortedSeq(inserted)))

C5_Witness ==
    /\ GeneralPosition
    /\ Cardinality(inserted) = 3
    /\ Len(sites) = 3
    /\ Less(sites[3], sites[2])
    /\ Less(sites[2], sites[1])

\* C6: getRegions returns one region for each distinct inserted site and
\* none for a corner of the bounding triangle.
C6_OneRegionPerSite ==
    LET r == getRegions(delaunay)
        Around(s) == {i \in 1..Len(r.regions) :
                        \A j \in 1..Len(r.regions[i]) : triContains(r.regions[i][j], s)}
    IN  /\ r.ok
        /\ Len(r.regions) = Cardinality(inserted)
        /\ \A s \in inserted : Cardinality(Around(s)) = 1
        /\ \A c \in Corners : Around(c) = {}

C6_Witness ==
    /\ Cardinality(inserted) = 2
    /\ Len(sites) = 3
    /\ Len(getRegions(delaunay).regions) = 2

\* C7 as stated: after inserting (0,0), (1,0), (0,1) in that order there are
\* exactly 6 live triangles.
C7_SixTriangles == sites = Scenario1 => size(delaunay) = 6

\* C7 amended: after inserting (0,0), (1,0), (0,1) in that order there are
\* exactly 7 live triangles.
C7_SevenTriangles == sites = Scenario1 => size(delaunay) = 7

C7_Witness == sites = Scenario1 /\ outcome = "placed" /\ inserted = Range(Scenario1)

\* C8: two live triangles are linked exactly when they share two of their
\* three vertices, and every link joins two live triangles.
C8_LinksAreNeighbors ==
    /\ \A a, b \in Live : a # b => (Linked(triGraph, a, b) <=> isNeighbor(a, b))
    /\ \A i \in 1..Len(triGraph.links) :
          triGraph.links[i][1] \in Live /\ triGraph.links[i][2] \in Live

C8_Witness ==
    /\ size(delaunay) = 7
    /\ \E a, b \in Live : a # b /\ Linked(triGraph, a, b)
    /\ \E a, b \in Live : a # b /\ ~Linked(triGraph, a, b)

\* C9: a triangle constructed later has a strictly greater identity number,
\* so no two triangles share one.
C9_IdsIncrease ==
    \A a, b \in Live : a.ref < b.ref => a.idNumber < b.idNumber

\* C10: every inserted site and every corner is a vertex of a live triangle,
\* and every live triangle has 3 distinct vertices among sites and corners.
C10_SitesPersist ==
    /\ \A s \in inserted \cup Corners : \E t \in Live : triContains(t, s)
    /\ \A t \in Live :
          /\ Len(t.v) = 3
          /\ Cardinality(Range(t.v)) = 3
          /\ Range(t.v) \subseteq inserted \cup Corners

C10_Witness ==
    /\ Cardinality(inserted) = 3
    /\ \E r \in 2..4 : \A t \in Live : t.ref # r
    /\ \E t \in Live : triContains(t, sites[1])

(***************************************************************************)
(* Plane geometry in the integers, for the grid's small coordinates: the   *)
(* circumcentre of a, b, c is U / (2 D).                                   *)
(***************************************************************************)
TwiceArea(a, b, c) ==
    a[1] * (b[2] - c[2]) + b[1] * (c[2] - a[2]) + c[1] * (a[2] - b[2])

Sq(a) == a[1] * a[1] + a[2] * a[2]

CentreX(a, b, c) == Sq(a) * (b[2] - c[2]) + Sq(b) * (c[2] - a[2]) + Sq(c) * (a[2] - b[2])

CentreY(a, b, c) == Sq(a) * (c[1] - b[1]) + Sq(b) * (a[1] - c[1]) + Sq(c) * (b[1] - a[1])

\* The squared distance of q to the circumcentre of a, b, c, times (2 D)^2.
FromCentre(q, a, b, c) ==
    (2 * TwiceArea(a, b, c) * q[1] - CentreX(a, b, c)) * (2 * TwiceArea(a, b, c) * q[1] - CentreX(a, b, c))
    + (2 * TwiceArea(a, b, c) * q[2] - CentreY(a, b, c)) * (2 * TwiceArea(a, b, c) * q[2] - CentreY(a, b, c))

\* -1, 0, +1: q inside, on, outside the circle through a, b, c.
CircleSide(q, a, b, c) ==
    IF FromCentre(q, a, b, c) < FromCentre(a, a, b, c) THEN -1
    ELSE IF FromCentre(q, a, b, c) = FromCentre(a, a, b, c) THEN 0
    ELSE 1

Orderings(s) ==
    {<<s[1], s[2], s[3]>>, <<s[1], s[3], s[2]>>, <<s[2], s[1], s[3]>>,
     <<s[2], s[3], s[1]>>, <<s[3], s[1], s[2]>>, <<s[3], s[2], s[1]>>}

\* C11: for a triangle that is not degenerate, vsCircumcircle returns -1, 0
\* or +1 as the point is strictly inside, on or strictly outside the
\* circumcircle, and returns the same for all six orderings of the vertices.
C11_CircleSide ==
    (call.op = "vsCircumcircle"
        /\ TwiceArea(call.simplex[1], call.simplex[2], call.simplex[3]) # 0)
    => /\ call.sign = CircleSide(call.p, call.simplex[1], call.simplex[2], call.simplex[3])
       /\ \A s \in Orderings(call.simplex) : vsCircumcircle(call.p, s) = call.sign

\* A point strictly inside the circumcircle of a clockwise triangle.
C11_Witness ==
    /\ call.op = "vsCircumcircle"
    /\ TwiceArea(call.simplex[1], call.simplex[2], call.simplex[3]) < 0
    /\ call.sign = -1

\* The signs of relation that are zero, by index.
Zeros(p, simplex) == {i \in 1..3 : relation(p, simplex)[i] = 0}

Positives(p, simplex) == {i \in 1..3 : relation(p, simplex)[i] > 0}

Min(S) == CHOOSE i \in S : \A j \in S : i <= j

Max(S) == CHOOSE i \in S : \A j \in S : i >= j

\* C12 as stated: isOn returns the first simplex vertex whose relation sign
\* is zero, and none exactly when no sign is zero.
C12_FirstZero ==
    call.op = "isOn" =>
        IF Zeros(call.p, call.simplex) = {} THEN call.vertex = NoVertex
        ELSE call.vertex = call.simplex[Min(Zeros(call.p, call.simplex))]

\* C12 amended: isOn returns none when some relation sign is positive or no
\* sign is zero, and otherwise the last simplex vertex whose sign is zero.
C12_LastZeroUnlessOutside ==
    call.op = "isOn" =>
        IF Zeros(call.p, call.simplex) = {} \/ Positives(call.p, call.simplex) # {}
        THEN call.vertex = NoVertex
        ELSE call.vertex = call.simplex[Max(Zeros(call.p, call.simplex))]

\* A point on two edges of a proper triangle: the second of the two vertices
\* with a zero sign is returned.
C12_Witness ==
    /\ call.op = "isOn"
    /\ TwiceArea(call.simplex[1], call.simplex[2], call.simplex[3]) # 0
    /\ Cardinality(Zeros(call.p, call.simplex)) = 2
    /\ call.vertex = call.simplex[Max(Zeros(call.p, call.simplex))]
    /\ call.vertex # call.simplex[Min(Zeros(call.p, call.simplex))]

\* The points located: those offered to addPoint, a corner of the initial
\* triangle, points of its edges, and points to its left and below it.
Probes ==
    Inside \cup Outside \cup
    {<<-DEFAULT_SIZE, -DEFAULT_SIZE>>, <<0, -DEFAULT_SIZE>>, <<DEFAULT_SIZE \div 2, 0>>,
     <<-DEFAULT_SIZE, 0>>, <<3, -2 * DEFAULT_SIZE>>}

Holds(q) == {t \in Live : isOutside(q, t.v) = NoVertex}

\* C13: for every reachable mesh and every point, locate ends; it returns a
\* live triangle that the point is not outside of when there is one, and none
\* only when there is no such triangle, as for a point outside the initial
\* triangle.
C13_LocateTotal ==
    \A q \in Probes :
        IF Holds(q) = {} THEN locate(delaunay, q) = Null
        ELSE locate(delaunay, q) \in Holds(q)

\* In a mesh of seven triangles the walk leaves the cached triangle and ends
\* at a missing neighbour for a point outside, and at a triangle for a point
\* of an edge of the initial triangle.
C13_Witness ==
    /\ size(delaunay) = 7
    /\ \E q \in Probes : Holds(q) = {} /\ locate(delaunay, q) = Null
    /\ \E q \in Probes \ Inside :
          /\ isOutside(q, mostRecent.v) # NoVertex
          /\ locate(delaunay, q) \in Holds(q)

Around(s) == {t \in Live : triContains(t, s)}

\* C14: for every inserted site and every live triangle that has it as a
\* vertex, surroundingTriangles ends and returns the live triangles that have
\* the site as a vertex, each once, every entry linked to the next and the
\* last to the first.
C14_FanInOrder ==
    \A s \in inserted : \A t \in Around(s) :
        LET r == surroundingTriangles(delaunay, s, t)
        IN  /\ r.ok
            /\ Range(r.list) = Around(s)
            /\ Len(r.list) = Cardinality(Around(s))
            /\ \A i \in 1..Len(r.list) :
                   Linked(triGraph, r.list[i], r.list[(i % Len(r.list)) + 1])

\* A site with a fan of at least five triangles, none of them the cached one.
C14_Witness ==
    \E s \in inserted :
        /\ Cardinality(Around(s)) >= 5
        /\ mostRecent \notin Around(s)
        /\ \E t \in Around(s) : Len(surroundingTriangles(delaunay, s, t).list) >= 5

\* C15 as stated: neighborOpposite fails for a vertex that triangle does not
\* have; otherwise it returns a triangle linked to triangle that does not
\* have the vertex, and never none when the vertex is an inserted site.
C15_NeverNoneForSite ==
    \A t \in Live : \A w \in Corners \cup Inside :
        LET n == neighborOpposite(delaunay, w, t)
        IN  IF ~triContains(t, w) THEN n = Thrown
            ELSE /\ n # Thrown
                 /\ (n # Null) => (n \in Live /\ Linked(triGraph, t, n) /\ ~triContains(n, w))
                 /\ (w \in inserted) => (n # Null)

\* C15 amended: neighborOpposite fails for a vertex that triangle does not
\* have; otherwise it returns a triangle linked to triangle that does not
\* have the vertex, or none, and none exactly when the facet opposite the
\* vertex joins two corners of the initial triangle.
C15_NoneOnlyAcrossHull ==
    \A t \in Live : \A w \in Corners \cup Inside :
        LET n == neighborOpposite(delaunay, w, t)
        IN  IF ~triContains(t, w) THEN n = Thrown
            ELSE /\ n # Thrown
                 /\ (n # Null) => (n \in Live /\ Linked(triGraph, t, n) /\ ~triContains(n, w))
                 /\ (n = Null) <=> (Range(facetOpposite(t, w)) \subseteq Corners)

\* A mesh of seven triangles, where a triangle has a neighbour opposite an
\* inserted site, another has none opposite an inserted site, and the call
\* fails for an inserted site that a live triangle does not have.
C15_Witness ==
    /\ size(delaunay) = 7
    /\ \E t \in Live : \E w \in inserted :
          triContains(t, w) /\ neighborOpposite(delaunay, w, t) \in Live
    /\ \E t \in Live : \E w \in inserted :
          triContains(t, w) /\ neighborOpposite(delaunay, w, t) = Null
    /\ \E t \in Live : \E w \in inserted :
          ~triContains(t, w) /\ neighborOpposite(delaunay, w, t) = Thrown

\* The live triangles that do not have q outside their circumcircle.
NotOutside(q) == {t \in Live : vsCircumcircle(q, t.v) # 1}

\* The triangles of ok reached from those of R along links, inside ok.
RECURSIVE Reached(_, _)
Reached(R, ok) ==
    LET more == R \cup {u \in ok : \E t \in R : Linked(triGraph, t, u)}
    IN  IF more = R THEN R ELSE Reached(more, ok)

\* C16: getCavity(site, start) ends and returns, each once, the live
\* triangles reached from start along links through triangles that do not
\* have the site outside their circumcircle, start included; none when start
\* has the site outside its circumcircle.
C16_CavityIsReached ==
    \A q \in Inside :
        LET ok == NotOutside(q)
        IN  \A start \in Holds(q) \cup {mostRecent} :
                LET cavity == getCavity(delaunay, q, start)
                IN  /\ Range(cavity) = Reached({start} \cap ok, ok)
                    /\ Len(cavity) = Cardinality(Range(cavity))

\* A cavity of several triangles that leaves out a triangle linked to it, and
\* an empty cavity from a start that has the site outside its circumcircle
\* while other triangles do not.
C16_Witness ==
    /\ \E q \in Inside : \E start \in Holds(q) :
          /\ Len(getCavity(delaunay, q, start)) >= 2
          /\ \E t \in Live \ NotOutside(q) :
                \E u \in Range(getCavity(delaunay, q, start)) : Linked(triGraph, t, u)
    /\ \E q \in Inside :
          /\ getCavity(delaunay, q, mostRecent) = <<>>
          /\ NotOutside(q) # {}

\* C17: an insertion of a new site removes k >= 1 triangles and adds k + 2,
\* each with the site as a vertex; with n distinct sites inserted there are
\* 2n + 1 live triangles, and the cached triangle is one of them.
C17_TwoMorePerSite ==
    /\ [](size(delaunay) = 2 * Cardinality(inserted) + 1 /\ mostRecent \in Live)
    /\ [][outcome' = "placed" =>
            /\ Cardinality(Live \ Live') >= 1
            /\ Cardinality(Live' \ Live) = Cardinality(Live \ Live') + 2
            /\ \A t \in Live' \ Live : triContains(t, sites'[Len(sites')])
            /\ inserted' = inserted \cup {sites'[Len(sites')]}
            /\ sites'[Len(sites')] \notin inserted]_vars

\* A third site whose insertion removed three triangles and added five.
C17_Witness ==
    /\ outcome = "placed"
    /\ Cardinality(inserted) = 3
    /\ Cardinality({t \in Live : triContains(t, sites[Len(sites)])}) = 5

====
